---- MODULE Spec2Model ----
(***************************************************************************)
(* Model of src/app.js: the employee CRUD service (express handlers,       *)
(* express-validator chains, a mongoose model over a MongoDB collection).  *)
(*                                                                         *)
(* Text is modelled as a sequence of one-character strings, so that the    *)
(* validators, the casts to String and the $regex search are computed      *)
(* character by character.                                                 *)
(***************************************************************************)
EXTENDS Integers, Sequences, FiniteSets, TLC

(***************************************************************************)
(* Bounds of the model.                                                    *)
(***************************************************************************)
\* Requests that may be in flight at once (concurrent handler invocations).
MaxReqs == 2
\* Documents the store creates in one behaviour (identifiers handed out).
MaxCreate == 2
\* Requests served in one behaviour.
MaxOps == 4

(***************************************************************************)
(* Characters and text.                                                    *)
(***************************************************************************)
LowerSeq == <<"a","b","c","d","e","f","g","h","i","j","k","l","m",
              "n","o","p","q","r","s","t","u","v","w","x","y","z">>
UpperSeq == <<"A","B","C","D","E","F","G","H","I","J","K","L","M",
              "N","O","P","Q","R","S","T","U","V","W","X","Y","Z">>
DigitSeq == <<"0","1","2","3","4","5","6","7","8","9">>

Range(s) == { s[i] : i \in DOMAIN s }
Letters == Range(LowerSeq) \cup Range(UpperSeq)
Digits == Range(DigitSeq)

\* Case folding of one character, as the regex option "i" compares them.
Lower(c) ==
    IF c \in Range(UpperSeq)
    THEN LowerSeq[CHOOSE i \in DOMAIN UpperSeq : UpperSeq[i] = c]
    ELSE c

DigitVal(c) == (CHOOSE i \in DOMAIN DigitSeq : DigitSeq[i] = c) - 1

AllIn(s, set) == \A i \in DOMAIN s : s[i] \in set

\* The pieces of s between occurrences of the separator sep (String.split).
RECURSIVE Split(_, _)
Split(s, sep) ==
    IF \A i \in DOMAIN s : s[i] # sep
    THEN <<s>>
    ELSE LET p == CHOOSE i \in DOMAIN s :
                      s[i] = sep /\ \A j \in 1..(i - 1) : s[j] # sep
         IN  <<SubSeq(s, 1, p - 1)>> \o Split(SubSeq(s, p + 1, Len(s)), sep)

\* Number.prototype.toString for a non-negative integer.
RECURSIVE NatToStr(_)
NatToStr(n) ==
    IF n < 10 THEN <<DigitSeq[n + 1]>>
    ELSE NatToStr(n \div 10) \o <<DigitSeq[(n % 10) + 1]>>

\* Number.prototype.toString for an integer.
IntToStr(n) == IF n < 0 THEN <<"-">> \o NatToStr(0 - n) ELSE NatToStr(n)

\* The number a string of digits denotes.
RECURSIVE DigitsToNat(_)
DigitsToNat(s) ==
    IF Len(s) = 0 THEN 0
    ELSE 10 * DigitsToNat(SubSeq(s, 1, Len(s) - 1)) + DigitVal(s[Len(s)])

\* A leading sign removed.
Unsigned(s) ==
    IF Len(s) > 0 /\ s[1] \in {"+", "-"} THEN SubSeq(s, 2, Len(s)) ELSE s

\* Number(str) for a string matching /^[-+]?[0-9]+$/.
StrToInt(s) ==
    IF Len(s) > 0 /\ s[1] = "-" THEN 0 - DigitsToNat(Unsigned(s))
    ELSE DigitsToNat(Unsigned(s))

(***************************************************************************)
(* Request body values: a JSON string, a JSON number, or an absent key.    *)
(***************************************************************************)
Undef == [ty |-> "undefined", s |-> <<>>, n |-> 0]
StrV(s) == [ty |-> "string", s |-> s, n |-> 0]
NumV(n) == [ty |-> "number", s |-> <<>>, n |-> n]

\* express-validator hands validator.js the value as text: a string as it
\* is, a number by its toString, an absent value as the empty string.
toString(v) ==
    CASE v.ty = "string" -> v.s
      [] v.ty = "number" -> IntToStr(v.n)
      [] OTHER -> <<>>

(***************************************************************************)
(* validator.js predicates used by the chains of app.js.                   *)
(***************************************************************************)
\* isString(): typeof value === 'string'.
isString(v) == v.ty = "string"

\* isEmpty(str): str.length === 0.
isEmpty(s) == Len(s) = 0

\* isNumeric(str): /^[+-]?([0-9]*[.])?[0-9]+$/.
isNumeric(s) ==
    LET u == Unsigned(s)
        parts == Split(u, ".")
    IN  \/ Len(parts) = 1 /\ Len(u) > 0 /\ AllIn(u, Digits)
        \/ /\ Len(parts) = 2
           /\ AllIn(parts[1], Digits)
           /\ Len(parts[2]) > 0 /\ AllIn(parts[2], Digits)

\* isInt(str, {min}): /^[-+]?[0-9]+$/ and str >= min.
isInt(s, min) ==
    LET u == Unsigned(s)
    IN  Len(u) > 0 /\ AllIn(u, Digits) /\ StrToInt(s) >= min

\* isEmail(str): user@domain, the user part dot-separated atoms, the domain
\* a fully qualified name whose last label is alphabetic (the default
\* options of validator.js, for the ASCII characters modelled here).
UserChars == Letters \cup Digits \cup {"-", "+", "_"}
HostChars == Letters \cup Digits \cup {"-"}
isEmail(s) ==
    LET parts == Split(s, "@")
    IN  /\ Len(parts) = 2
        /\ LET user == Split(parts[1], ".")
               host == Split(parts[2], ".")
           IN  /\ \A i \in DOMAIN user : Len(user[i]) > 0 /\ AllIn(user[i], UserChars)
               /\ Len(host) >= 2
               /\ \A i \in DOMAIN host :
                      /\ Len(host[i]) > 0 /\ AllIn(host[i], HostChars)
                      /\ host[i][1] # "-" /\ host[i][Len(host[i])] # "-"
               /\ Len(host[Len(host)]) >= 2 /\ AllIn(host[Len(host)], Letters)

\* isISO8601(str), not strict: the calendar-date forms YYYY, YYYY-MM and
\* YYYY-MM-DD of the pattern, month 01-12 and day 01-31; the day is not
\* checked against the month.
TwoDigits(p, lo, hi) ==
    Len(p) = 2 /\ AllIn(p, Digits) /\ DigitsToNat(p) >= lo /\ DigitsToNat(p) <= hi
isISO8601(s) ==
    LET parts == Split(s, "-")
    IN  /\ Len(parts) \in 1..3
        /\ Len(parts[1]) = 4 /\ AllIn(parts[1], Digits)
        /\ Len(parts) >= 2 => TwoDigits(parts[2], 1, 12)
        /\ Len(parts) >= 3 => TwoDigits(parts[3], 1, 31)

(***************************************************************************)
(* The Employee schema and the validation chains.                          *)
(***************************************************************************)
\* The seven paths of employeeSchema, in declaration order.
Fields == {"emp_name", "emp_email", "emp_salary", "experience",
           "dept_code", "joining_date", "secrete_code"}

\* One validator of a chain: body(path).<check>().withMessage(msg).
Rule(path, check, msg) == [path |-> path, check |-> check, msg |-> msg]

\* The chains of POST /employees, as a bug could leave them: the
\* experience chain is missing.
postRulesNoExperience ==
    << Rule("emp_name", "isString", "Employee name must be a string"),
       Rule("emp_name", "notEmpty", "Employee name is required"),
       Rule("emp_email", "isEmail", "Invalid email format"),
       Rule("emp_email", "notEmpty", "Employee email is required"),
       Rule("emp_salary", "isNumeric", "Salary must be a number"),
       Rule("emp_salary", "notEmpty", "Employee salary is required"),
       Rule("dept_code", "isString", "Department code must be a string"),
       Rule("dept_code", "notEmpty", "Department code is required"),
       Rule("joining_date", "isISO8601", "Joining date must be a valid date in ISO8601 format"),
       Rule("secrete_code", "isString", "Secret code must be a string"),
       Rule("secrete_code", "notEmpty", "Secret code is required") >>

\* The chains of POST /employees, validator by validator in source order.
postRules ==
    << Rule("emp_name", "isString", "Employee name must be a string"),
       Rule("emp_name", "notEmpty", "Employee name is required"),
       Rule("emp_email", "isEmail", "Invalid email format"),
       Rule("emp_email", "notEmpty", "Employee email is required"),
       Rule("emp_salary", "isNumeric", "Salary must be a number"),
       Rule("emp_salary", "notEmpty", "Employee salary is required"),
       Rule("experience", "isIntMin0", "Experience must be a non-negative integer"),
       Rule("dept_code", "isString", "Department code must be a string"),
       Rule("dept_code", "notEmpty", "Department code is required"),
       Rule("joining_date", "isISO8601", "Joining date must be a valid date in ISO8601 format"),
       Rule("secrete_code", "isString", "Secret code must be a string"),
       Rule("secrete_code", "notEmpty", "Secret code is required") >>

\* The chains of PUT /employees/:id, as a bug could leave them: the
\* experience chain is missing.
putRulesNoExperience ==
    << Rule("emp_name", "isString", "Employee name must be a string"),
       Rule("emp_name", "notEmpty", "Employee name is required"),
       Rule("emp_email", "isEmail", "Invalid email format"),
       Rule("emp_email", "notEmpty", "Employee email is required"),
       Rule("emp_salary", "isNumeric", "Salary must be a number"),
       Rule("emp_salary", "notEmpty", "Employee salary is required"),
       Rule("dept_code", "isString", "Department code must be a string"),
       Rule("dept_code", "notEmpty", "Department code is required"),
       Rule("joining_date", "isISO8601", "Joining date must be a valid date in ISO8601 format"),
       Rule("secrete_code", "isString", "Secret code must be a string"),
       Rule("secrete_code", "notEmpty", "Secret code is required") >>

\* The chains of PUT /employees/:id, validator by validator in source order.
putRules ==
    << Rule("emp_name", "isString", "Employee name must be a string"),
       Rule("emp_name", "notEmpty", "Employee name is required"),
       Rule("emp_email", "isEmail", "Invalid email format"),
       Rule("emp_email", "notEmpty", "Employee email is required"),
       Rule("emp_salary", "isNumeric", "Salary must be a number"),
       Rule("emp_salary", "notEmpty", "Employee salary is required"),
       Rule("experience", "isIntMin0", "Experience must be a non-negative integer"),
       Rule("dept_code", "isString", "Department code must be a string"),
       Rule("dept_code", "notEmpty", "Department code is required"),
       Rule("joining_date", "isISO8601", "Joining date must be a valid date in ISO8601 format"),
       Rule("secrete_code", "isString", "Secret code must be a string"),
       Rule("secrete_code", "notEmpty", "Secret code is required") >>

\* Whether value v passes one validator.
Passes(check, v) ==
    CASE check = "isString" -> isString(v)
      [] check = "notEmpty" -> ~isEmpty(toString(v))
      [] check = "isEmail" -> isEmail(toString(v))
      [] check = "isNumeric" -> isNumeric(toString(v))
      [] check = "isIntMin0" -> isInt(toString(v), 0)
      [] check = "isISO8601" -> isISO8601(toString(v))

\* validationResult(req).array() as a bug could compute it: a chain stops
\* at the first field that fails, so later fields go unreported.
RECURSIVE validationResultBail(_, _)
validationResultBail(rules, body) ==
    IF Len(rules) = 0 THEN <<>>
    ELSE LET r == Head(rules)
         IN  IF Passes(r.check, body[r.path])
             THEN validationResultBail(Tail(rules), body)
             ELSE <<[path |-> r.path, msg |-> r.msg]>>

\* validationResult(req).array(): every validator of every chain runs (no
\* bail), and each failure adds one error, in chain order.
RECURSIVE validationResult(_, _)
validationResult(rules, body) ==
    IF Len(rules) = 0 THEN <<>>
    ELSE LET r == Head(rules)
             rest == validationResult(Tail(rules), body)
         IN  IF Passes(r.check, body[r.path])
             THEN rest
             ELSE <<[path |-> r.path, msg |-> r.msg]>> \o rest

(***************************************************************************)
(* Mongoose: casting to the schema's String type, and `required`.          *)
(***************************************************************************)
\* castString as a bug could write it: a number is stored as the empty text.
castStringDropNumber(v) == IF v.ty = "string" THEN v.s ELSE <<>>

\* SchemaString cast: a string as it is, a number by its toString. An
\* absent value stays absent; absent and "" are both written <<>> here, and
\* `required: true` rejects both alike.
castString(v) ==
    CASE v.ty = "string" -> v.s
      [] v.ty = "number" -> IntToStr(v.n)
      [] OTHER -> <<>>

\* new Employee({...}) / the seven assignments of PUT: every path is set
\* from the body and cast to String.
newEmployee(body) == [f \in Fields |-> castString(body[f])]

\* The `required: true` validators that run inside save().
schemaValid(doc) == \A f \in Fields : Len(doc[f]) > 0

\* The paths mongoose marks modified when `employee.<f> = value` is run for
\* each field: those whose cast value differs from the loaded one.
modifiedPaths(loaded, assigned) == { f \in Fields : assigned[f] # loaded[f] }

(***************************************************************************)
(* MongoDB $regex with option "i", for the patterns of the model: a        *)
(* letter, digit or blank matches itself whatever its case, "." matches    *)
(* any character, and "(" without its ")" is a pattern the server rejects. *)
(***************************************************************************)
regexInvalid(p) ==
    \E i \in DOMAIN p : p[i] = "(" /\ \A j \in (i + 1)..Len(p) : p[j] # ")"

\* Literal, case-insensitive containment: what an escaped pattern would do.
containsIgnoreCase(p, s) ==
    \E k \in 0..(Len(s) - Len(p)) :
        \A i \in 1..Len(p) : Lower(p[i]) = Lower(s[k + i])

\* Whether the pattern matches somewhere in s (unanchored).
regexTest(p, s) ==
    \E k \in 0..(Len(s) - Len(p)) :
        \A i \in 1..Len(p) : p[i] = "." \/ Lower(p[i]) = Lower(s[k + i])

(***************************************************************************)
(* The inputs of the model.                                                *)
(***************************************************************************)
T_Al == <<"A","l">>
T_abc == <<"a","b","c">>
T_mail == <<"a","@","x",".","c","o","m">>
T_50000 == <<"5","0","0","0","0">>
T_3 == <<"3">>
T_ENG == <<"E","N","G">>
T_HR == <<"H","R">>
T_date == <<"2","0","2","4","-","0","1","-","1","5">>

\* A body with every field valid.
BaseBody ==
    [f \in Fields |->
        CASE f = "emp_name" -> StrV(T_Al)
          [] f = "emp_email" -> StrV(T_mail)
          [] f = "emp_salary" -> StrV(T_50000)
          [] f = "experience" -> StrV(T_3)
          [] f = "dept_code" -> StrV(T_ENG)
          [] f = "joining_date" -> StrV(T_date)
          [] f = "secrete_code" -> StrV(T_abc)]

\* The bodies the handlers receive: three valid ones (the second renames,
\* the third moves department and sends experience as a JSON number) and
\* an invalid one (a negative experience).
Bodies ==
    { BaseBody,
      [BaseBody EXCEPT !["emp_name"] = StrV(T_abc)],
      [BaseBody EXCEPT !["dept_code"] = StrV(T_HR), !["experience"] = NumV(3)],
      [BaseBody EXCEPT !["experience"] = StrV(<<"-","1">>)] }

\* The values each field takes when validation is exercised field by field.
FieldValues(f) ==
    CASE f = "emp_name" -> { Undef, StrV(<<>>), StrV(T_Al), NumV(3) }
      [] f = "emp_email" -> { Undef, StrV(T_mail), StrV(<<"a","@","x">>) }
      [] f = "emp_salary" ->
            { Undef, StrV(<<"2",".","5">>), NumV(50), StrV(T_abc) }
      [] f = "experience" ->
            { Undef, StrV(T_3), NumV(0), NumV(0 - 1), StrV(<<"2",".","5">>) }
      [] f = "dept_code" -> { Undef, StrV(<<>>), StrV(T_ENG) }
      [] f = "joining_date" ->
            { Undef, StrV(T_date),
              StrV(<<"1","5","/","0","1","/","2","0","2","4">>),
              StrV(<<"2","0","2","4","-","1","3","-","0","1">>) }
      [] f = "secrete_code" -> { Undef, StrV(T_abc), NumV(7) }

\* The body with the given value for each field.
MkBody(v1, v2, v3, v4, v5, v6, v7) ==
    [f \in Fields |->
        CASE f = "emp_name" -> v1
          [] f = "emp_email" -> v2
          [] f = "emp_salary" -> v3
          [] f = "experience" -> v4
          [] f = "dept_code" -> v5
          [] f = "joining_date" -> v6
          [] f = "secrete_code" -> v7]

\* The search terms of GET /employees/search/:name.
Terms == { <<"A","L">>, <<"b">>, <<"a",".","c">>, <<"(">> }

\* The identifiers the store hands out, in the order it hands them out
\* (ObjectIds: 24 hexadecimal digits, never handed out twice).
ObjectIds == [i \in 1..MaxCreate |-> <<"o", "i", "d">> \o NatToStr(i)]

\* The :id parameters of the requests: every ObjectId, and a text that is
\* no ObjectId.
BadId == <<"s","e","a","r","c","h">>
IdParams == Range(ObjectIds) \cup { BadId }

\* mongoose casts the :id to ObjectId; a text that is none is a CastError.
isObjectId(id) == id \in Range(ObjectIds)

(***************************************************************************)
(* The collection. A storage call maps the collection to the collection    *)
(* after it, an error name ("" for none) and the documents it yields.      *)
(***************************************************************************)
Reply(st, err, docs) == [store |-> st, err |-> err, docs |-> docs]

\* A stored document as a response carries it: the identifier and the paths.
DocOf(id, fields) == [id |-> id, f |-> fields]

\* Employee.find(): every document.
dbFind(st) == Reply(st, "", { DocOf(i, st[i]) : i \in DOMAIN st })

\* Employee.findById as a bug could write it: findByIdAndDelete.
dbFindByIdAndDelete(st, id) ==
    IF ~isObjectId(id) THEN Reply(st, "CastError", {})
    ELSE IF id \in DOMAIN st
         THEN Reply([j \in DOMAIN st \ {id} |-> st[j]], "", { DocOf(id, st[id]) })
         ELSE Reply(st, "", {})

\* Employee.findById(id): a CastError for a text that is no ObjectId, else
\* the document with that identifier, or none.
dbFindById(st, id) ==
    IF ~isObjectId(id) THEN Reply(st, "CastError", {})
    ELSE IF id \in DOMAIN st
         THEN Reply(st, "", { DocOf(id, st[id]) })
         ELSE Reply(st, "", {})

\* Employee.find({ emp_name: { $regex: name, $options: 'i' } }): the term is
\* the pattern itself.
dbFindRegex(st, name) ==
    IF regexInvalid(name) THEN Reply(st, "MongoServerError", {})
    ELSE Reply(st, "", { DocOf(i, st[i]) : i \in { j \in DOMAIN st :
                             regexTest(name, st[j]["emp_name"]) } })

\* save() of a new document: the `required` validators, then insertOne
\* under a fresh ObjectId, the n-th the store hands out.
dbInsert(st, n, doc) ==
    IF ~schemaValid(doc) THEN Reply(st, "ValidationError", {})
    ELSE Reply((ObjectIds[n] :> doc) @@ st, "", { DocOf(ObjectIds[n], doc) })

\* save() of a loaded document as a bug could write it: an upsert, which
\* writes the document back when it has been removed meanwhile.
dbUpdateUpsert(st, id, employee, modified) ==
    IF ~schemaValid(employee) THEN Reply(st, "ValidationError", {})
    ELSE IF id \notin DOMAIN st
         THEN Reply((id :> employee) @@ st, "", { DocOf(id, employee) })
         ELSE Reply([st EXCEPT ![id] =
                        [f \in Fields |-> IF f \in modified THEN employee[f] ELSE @[f]]],
                    "", { DocOf(id, employee) })

\* save() of a loaded document: the `required` validators, then
\* updateOne({_id}, {$set: <the modified paths>}); a DocumentNotFoundError
\* when no document matched. The promise yields the in-memory document.
dbUpdate(st, id, employee, modified) ==
    IF ~schemaValid(employee) THEN Reply(st, "ValidationError", {})
    ELSE IF id \notin DOMAIN st THEN Reply(st, "DocumentNotFoundError", {})
    ELSE Reply([st EXCEPT ![id] =
                   [f \in Fields |-> IF f \in modified THEN employee[f] ELSE @[f]]],
               "", { DocOf(id, employee) })

\* employee.deleteOne(): deleteOne({_id}); no error when nothing matched.
dbDelete(st, id) == Reply([j \in DOMAIN st \ {id} |-> st[j]], "", {})

\* A storage call made while the store is unreachable: it fails and the
\* collection stays as it is.
Call(up, reply, st) == IF up THEN reply ELSE Reply(st, "MongoNetworkError", {})

(***************************************************************************)
(* State.                                                                  *)
(***************************************************************************)
VARIABLES
    store,      \* the employees collection: identifier -> the seven paths
    nextId,     \* how many identifiers the store has handed out, plus one
    req,        \* the handler invocations: one record per request in flight
    nops,       \* requests received so far
    created,    \* history: the identifiers of the 201 responses, in order
    deleted,    \* history: the identifiers of the 200 responses of DELETE
    lastWrite   \* history: per stored document, the write that last hit it

vars == <<store, nextId, req, nops, created, deleted, lastWrite>>

Reqs == 1..MaxReqs

NoBody == [f \in Fields |-> Undef]
NoEmployee == [f \in Fields |-> <<>>]
NoWrite == [op |-> "", body |-> NoBody, by |-> 0]

\* res.status(status).json({ key: ... }): the status and the body, whose
\* one key is "errors", "message" or "error", or which is a document
\* ("doc") or an array of documents ("docs").
Resp(status, key, msg, errors, docs) ==
    [status |-> status, key |-> key, msg |-> msg, errors |-> errors, docs |-> docs]
NoResp == Resp(0, "", "", <<>>, {})

\* A handler invocation: where it stands (pc), its route (kind), its
\* parameters (:id, :name, the body), the document it holds in memory with
\* the paths marked modified, and its response. Bookkeeping next to these:
\* the storage calls made (ops), whether one changed the collection (wrote),
\* whether the identifier had been deleted when the request arrived
\* (afterDel), and the write that had last hit the document findById
\* yielded (src; NoWrite when it yielded none).
IdleReq ==
    [pc |-> "idle", kind |-> "", id |-> <<>>, body |-> NoBody, term |-> <<>>,
     employee |-> NoEmployee, modified |-> {}, resp |-> NoResp,
     ops |-> 0, wrote |-> FALSE, afterDel |-> FALSE, src |-> NoWrite]

Init ==
    /\ store = <<>>
    /\ nextId = 1
    /\ req = [r \in Reqs |-> IdleReq]
    /\ nops = 0
    /\ created = <<>>
    /\ deleted = {}
    /\ lastWrite = <<>>

\* The history of writes after a storage call: kept for the documents still
\* stored.
Kept(st) ==
    [i \in DOMAIN st |-> IF i \in DOMAIN lastWrite THEN lastWrite[i] ELSE NoWrite]

\* The request arrives at a free handler.
Arrive(r) == req[r].pc = "idle" /\ nops < MaxOps /\ nops' = nops + 1

\* The bookkeeping of one storage call.
Called(r, reply) ==
    [req[r] EXCEPT !.ops = @ + 1, !.wrote = @ \/ reply.store # store]

(***************************************************************************)
(* POST /employees                                                         *)
(***************************************************************************)
\* Lines 44-60: the validation result decides; a valid body becomes a new
\* Employee and the handler awaits its save().
PostStart(r, body) ==
    /\ Arrive(r)
    /\ nextId + Cardinality({ q \in Reqs : req[q].kind = "POST" /\ req[q].pc = "save" })
           <= MaxCreate
    /\ LET errors == validationResult(postRules, body)
           base == [IdleReq EXCEPT !.kind = "POST", !.body = body]
       IN  req' = [req EXCEPT ![r] =
                IF Len(errors) # 0
                THEN [base EXCEPT !.pc = "done",
                                  !.resp = Resp(400, "errors", "", errors, {})]
                ELSE [base EXCEPT !.pc = "save", !.employee = newEmployee(body)]]
    /\ UNCHANGED <<store, nextId, created, deleted, lastWrite>>

\* Lines 62-67: save() resolves (201 and the saved document) or rejects
\* (400 and the error's message).
PostSave(r, up) ==
    /\ req[r].kind = "POST" /\ req[r].pc = "save"
    /\ LET reply == Call(up, dbInsert(store, nextId, req[r].employee), store)
           ok == reply.err = ""
           id == (CHOOSE d \in reply.docs : TRUE).id
       IN  /\ store' = reply.store
           /\ nextId' = IF ok THEN nextId + 1 ELSE nextId
           /\ created' = IF ok THEN Append(created, id) ELSE created
           /\ lastWrite' =
                IF ok
                THEN [i \in DOMAIN reply.store |->
                        IF i = id THEN [op |-> "create", body |-> req[r].body, by |-> r]
                        ELSE Kept(reply.store)[i]]
                ELSE Kept(reply.store)
           /\ req' = [req EXCEPT ![r] =
                [Called(r, reply) EXCEPT
                    !.pc = "done",
                    !.resp = IF ok THEN Resp(201, "doc", "", <<>>, reply.docs)
                             ELSE Resp(400, "message", reply.err, <<>>, {})]]
    /\ UNCHANGED <<nops, deleted>>

(***************************************************************************)
(* GET /employees                                                          *)
(***************************************************************************)
ListStart(r) ==
    /\ Arrive(r)
    /\ req' = [req EXCEPT ![r] = [IdleReq EXCEPT !.kind = "LIST", !.pc = "find"]]
    /\ UNCHANGED <<store, nextId, created, deleted, lastWrite>>

\* Lines 72-77.
ListFind(r, up) ==
    /\ req[r].kind = "LIST" /\ req[r].pc = "find"
    /\ LET reply == Call(up, dbFind(store), store)
       IN  /\ store' = reply.store
           /\ lastWrite' = Kept(reply.store)
           /\ req' = [req EXCEPT ![r] =
                [Called(r, reply) EXCEPT
                    !.pc = "done",
                    !.resp = IF reply.err = ""
                             THEN Resp(200, "docs", "", <<>>, reply.docs)
                             ELSE Resp(500, "message", reply.err, <<>>, {})]]
    /\ UNCHANGED <<nextId, nops, created, deleted>>

(***************************************************************************)
(* GET /employees/:id                                                      *)
(***************************************************************************)
GetStart(r, id) ==
    /\ Arrive(r)
    /\ req' = [req EXCEPT ![r] =
            [IdleReq EXCEPT !.kind = "GET", !.pc = "find", !.id = id,
                            !.afterDel = id \in deleted]]
    /\ UNCHANGED <<store, nextId, created, deleted, lastWrite>>

\* Lines 82-88.
GetFind(r, up) ==
    /\ req[r].kind = "GET" /\ req[r].pc = "find"
    /\ LET id == req[r].id
           reply == Call(up, dbFindById(store, id), store)
       IN  /\ store' = reply.store
           /\ lastWrite' = Kept(reply.store)
           /\ req' = [req EXCEPT ![r] =
                [Called(r, reply) EXCEPT
                    !.pc = "done",
                    !.src = IF id \in DOMAIN lastWrite THEN lastWrite[id] ELSE NoWrite,
                    !.resp = IF reply.err # ""
                             THEN Resp(500, "message", reply.err, <<>>, {})
                             ELSE IF reply.docs = {}
                             THEN Resp(404, "message", "Employee not found", <<>>, {})
                             ELSE Resp(200, "doc", "", <<>>, reply.docs)]]
    /\ UNCHANGED <<nextId, nops, created, deleted>>

(***************************************************************************)
(* PUT /employees/:id                                                      *)
(***************************************************************************)
\* Lines 103-111: the validation result decides before any storage call.
PutStart(r, id, body) ==
    /\ Arrive(r)
    /\ LET errors == validationResult(putRules, body)
           base == [IdleReq EXCEPT !.kind = "PUT", !.id = id, !.body = body]
       IN  req' = [req EXCEPT ![r] =
                IF Len(errors) # 0
                THEN [base EXCEPT !.pc = "done",
                                  !.resp = Resp(400, "errors", "", errors, {})]
                ELSE [base EXCEPT !.pc = "find"]]
    /\ UNCHANGED <<store, nextId, created, deleted, lastWrite>>

\* Lines 112-120: findById, 404 when there is no document, else the seven
\* assignments on the loaded document; a rejection is a 400 (line 124).
PutFind(r, up) ==
    /\ req[r].kind = "PUT" /\ req[r].pc = "find"
    /\ LET reply == Call(up, dbFindById(store, req[r].id), store)
           loaded == (CHOOSE d \in reply.docs : TRUE).f
           assigned == newEmployee(req[r].body)
       IN  /\ store' = reply.store
           /\ lastWrite' = Kept(reply.store)
           /\ req' = [req EXCEPT ![r] =
                IF reply.err # ""
                THEN [Called(r, reply) EXCEPT
                        !.pc = "done",
                        !.resp = Resp(400, "message", reply.err, <<>>, {})]
                ELSE IF reply.docs = {}
                THEN [Called(r, reply) EXCEPT
                        !.pc = "done",
                        !.resp = Resp(404, "message", "Employee not found", <<>>, {})]
                ELSE [Called(r, reply) EXCEPT
                        !.pc = "save",
                        !.src = lastWrite[req[r].id],
                        !.employee = assigned,
                        !.modified = modifiedPaths(loaded, assigned)]]
    /\ UNCHANGED <<nextId, nops, created, deleted>>

\* Lines 121-125: save() resolves (200 and the document) or rejects (400 and
\* the error's message).
PutSave(r, up) ==
    /\ req[r].kind = "PUT" /\ req[r].pc = "save"
    /\ LET id == req[r].id
           reply == Call(up, dbUpdate(store, id, req[r].employee, req[r].modified), store)
           ok == reply.err = ""
       IN  /\ store' = reply.store
           /\ lastWrite' =
                IF ok
                THEN [i \in DOMAIN reply.store |->
                        IF i = id THEN [op |-> "update", body |-> req[r].body, by |-> r]
                        ELSE Kept(reply.store)[i]]
                ELSE Kept(reply.store)
           /\ req' = [req EXCEPT ![r] =
                [Called(r, reply) EXCEPT
                    !.pc = "done",
                    !.resp = IF ok THEN Resp(200, "doc", "", <<>>, reply.docs)
                             ELSE Resp(400, "message", reply.err, <<>>, {})]]
    /\ UNCHANGED <<nextId, nops, created, deleted>>

(***************************************************************************)
(* DELETE /employees/:id                                                   *)
(***************************************************************************)
DeleteStart(r, id) ==
    /\ Arrive(r)
    /\ req' = [req EXCEPT ![r] =
            [IdleReq EXCEPT !.kind = "DELETE", !.pc = "find", !.id = id]]
    /\ UNCHANGED <<store, nextId, created, deleted, lastWrite>>

\* Lines 131-132; a rejection is a 500 (line 136).
DeleteFind(r, up) ==
    /\ req[r].kind = "DELETE" /\ req[r].pc = "find"
    /\ LET reply == Call(up, dbFindById(store, req[r].id), store)
       IN  /\ store' = reply.store
           /\ lastWrite' = Kept(reply.store)
           /\ req' = [req EXCEPT ![r] =
                IF reply.err # ""
                THEN [Called(r, reply) EXCEPT
                        !.pc = "done",
                        !.resp = Resp(500, "message", reply.err, <<>>, {})]
                ELSE IF reply.docs = {}
                THEN [Called(r, reply) EXCEPT
                        !.pc = "done",
                        !.resp = Resp(404, "message", "Employee not found", <<>>, {})]
                ELSE [Called(r, reply) EXCEPT
                        !.pc = "deleteOne", !.src = lastWrite[req[r].id]]]
    /\ UNCHANGED <<nextId, nops, created, deleted>>

\* Lines 133-137.
DeleteOne(r, up) ==
    /\ req[r].kind = "DELETE" /\ req[r].pc = "deleteOne"
    /\ LET reply == Call(up, dbDelete(store, req[r].id), store)
           ok == reply.err = ""
       IN  /\ store' = reply.store
           /\ lastWrite' = Kept(reply.store)
           /\ deleted' = IF ok THEN deleted \cup { req[r].id } ELSE deleted
           /\ req' = [req EXCEPT ![r] =
                [Called(r, reply) EXCEPT
                    !.pc = "done",
                    !.resp = IF ok THEN Resp(200, "message", "Employee deleted", <<>>, {})
                             ELSE Resp(500, "message", reply.err, <<>>, {})]]
    /\ UNCHANGED <<nextId, nops, created>>

(***************************************************************************)
(* GET /employees/search/:name                                             *)
(***************************************************************************)
SearchStart(r, name) ==
    /\ Arrive(r)
    /\ req' = [req EXCEPT ![r] =
            [IdleReq EXCEPT !.kind = "SEARCH", !.pc = "find", !.term = name]]
    /\ UNCHANGED <<store, nextId, created, deleted, lastWrite>>

\* Lines 145-152: the promise of find() resolves (404 for no document, else
\* the array) or rejects, which its own .catch answers with { error }. The
\* catch of lines 153-155 sees no rejection of that promise.
SearchFind(r, up) ==
    /\ req[r].kind = "SEARCH" /\ req[r].pc = "find"
    /\ LET reply == Call(up, dbFindRegex(store, req[r].term), store)
       IN  /\ store' = reply.store
           /\ lastWrite' = Kept(reply.store)
           /\ req' = [req EXCEPT ![r] =
                [Called(r, reply) EXCEPT
                    !.pc = "done",
                    !.resp = IF reply.err # ""
                             THEN Resp(500, "error", reply.err, <<>>, {})
                             ELSE IF reply.docs = {}
                             THEN Resp(404, "message", "No employees found", <<>>, {})
                             ELSE Resp(200, "docs", "", <<>>, reply.docs)]]
    /\ UNCHANGED <<nextId, nops, created, deleted>>

\* The response has been sent; the handler invocation is over.
Finish(r) ==
    /\ req[r].pc = "done"
    /\ req' = [req EXCEPT ![r] = IdleReq]
    /\ UNCHANGED <<store, nextId, nops, created, deleted, lastWrite>>

(***************************************************************************)
(* Specifications.                                                         *)
(***************************************************************************)
\* A request arrives.
Start(r) ==
    /\ req[r].pc = "idle" /\ nops < MaxOps
    /\ \/ \E body \in Bodies : PostStart(r, body)
       \/ ListStart(r)
       \/ \E id \in IdParams : GetStart(r, id)
       \/ \E id \in IdParams, body \in Bodies : PutStart(r, id, body)
       \/ \E id \in IdParams : DeleteStart(r, id)
       \/ \E name \in Terms : SearchStart(r, name)

\* A pending storage call completes and the handler runs to its next await
\* or to its response.
Resume(r, up) ==
    \/ PostSave(r, up)
    \/ ListFind(r, up)
    \/ GetFind(r, up)
    \/ PutFind(r, up)
    \/ PutSave(r, up)
    \/ DeleteFind(r, up)
    \/ DeleteOne(r, up)
    \/ SearchFind(r, up)

\* The service with the store reachable.
Next == \E r \in Reqs : Start(r) \/ Resume(r, TRUE) \/ Finish(r)
Spec == Init /\ [][Next]_vars

\* The service with a store that may be unreachable at any storage call.
NextOutage == \E r \in Reqs : Start(r) \/ (\E up \in BOOLEAN : Resume(r, up)) \/ Finish(r)
SpecOutage == Init /\ [][NextOutage]_vars

\* Validation alone: one handler, POST and PUT, every combination of the
\* field values.
NextValidation ==
    \/ /\ req[1].pc = "idle" /\ nops < MaxOps
       /\ \E v1 \in FieldValues("emp_name"), v2 \in FieldValues("emp_email"),
             v3 \in FieldValues("emp_salary"), v4 \in FieldValues("experience"),
             v5 \in FieldValues("dept_code"), v6 \in FieldValues("joining_date"),
             v7 \in FieldValues("secrete_code") :
               \/ PostStart(1, MkBody(v1, v2, v3, v4, v5, v6, v7))
               \/ \E id \in IdParams : PutStart(1, id, MkBody(v1, v2, v3, v4, v5, v6, v7))
    \/ Finish(1)
SpecValidation == Init /\ [][NextValidation]_vars

(***************************************************************************)
(* Vocabulary of the properties.                                           *)
(***************************************************************************)
\* A body value as text: what a response shows for it once stored.
TextOf(v) == IF v.ty = "number" THEN IntToStr(v.n) ELSE v.s
TextOfBody(body) == [f \in Fields |-> TextOf(body[f])]

\* The seven field constraints, on a stored document.
DocValid(d) ==
    /\ Len(d["emp_name"]) > 0
    /\ Len(d["dept_code"]) > 0
    /\ Len(d["secrete_code"]) > 0
    /\ isEmail(d["emp_email"])
    /\ isNumeric(d["emp_salary"])
    /\ isInt(d["experience"], 0)
    /\ isISO8601(d["joining_date"])

\* The seven field constraints, on a request body: the three texts are JSON
\* strings, and every value, written as text, meets its constraint.
BodyValid(body) ==
    /\ \A f \in {"emp_name", "dept_code", "secrete_code"} : body[f].ty = "string"
    /\ \A f \in Fields : body[f].ty # "undefined"
    /\ DocValid(TextOfBody(body))

\* The values of FieldValues that meet the field's constraint, one by one.
GoodValues(f) ==
    CASE f = "emp_name" -> { StrV(T_Al) }
      [] f = "emp_email" -> { StrV(T_mail) }
      [] f = "emp_salary" -> { StrV(<<"2",".","5">>), NumV(50) }
      [] f = "experience" -> { StrV(T_3), NumV(0) }
      [] f = "dept_code" -> { StrV(T_ENG) }
      [] f = "joining_date" -> { StrV(T_date) }
      [] f = "secrete_code" -> { StrV(T_abc) }

\* The fields of a body that are missing or invalid.
BadFields(body) == { f \in Fields : body[f] \notin GoodValues(f) }

\* What the search would yield with the term escaped: a literal match.
dbFindEscaped(st, name) ==
    Reply(st, "", { DocOf(i, st[i]) : i \in { j \in DOMAIN st :
                        containsIgnoreCase(name, st[j]["emp_name"]) } })

Done(r) == req[r].pc = "done"
Validated(r) == req[r].kind \in {"POST", "PUT"} /\ req[r].pc # "idle"
StorageErrors == { "CastError", "MongoServerError", "MongoNetworkError",
                   "ValidationError", "DocumentNotFoundError" }
FailedInStorage(r) == Done(r) /\ req[r].resp.msg \in StorageErrors

(***************************************************************************)
(* C1. Every stored employee meets the seven field constraints, and every  *)
(* request that changed the collection through POST or PUT carried a body  *)
(* that meets them.                                                        *)
(***************************************************************************)
\* C1: every stored document is valid, and so is the body of every POST or
\* PUT that changed the collection.
C1_StoredEmployeesValid ==
    /\ \A i \in DOMAIN store : DocValid(store[i])
    /\ \A r \in Reqs :
          (req[r].wrote /\ req[r].kind \in {"POST", "PUT"}) => BodyValid(req[r].body)

\* C1, its case: a document last written by a PUT is stored while a request with an
\* invalid body has been refused.
C1_Witness ==
    /\ \E i \in DOMAIN store : lastWrite[i].op = "update"
    /\ \E r \in Reqs : Done(r) /\ req[r].resp.key = "errors"

(***************************************************************************)
(* C2. The violation list of a body names exactly its missing or invalid   *)
(* fields, each at least once, is empty exactly when there is none, and is *)
(* the same list under the rules of POST and the rules of PUT.             *)
(***************************************************************************)
\* C2: the paths of the violation list are the bad fields of the body, and
\* the list is the one both rule sets give.
C2_ViolationsExact ==
    \A r \in Reqs :
        Validated(r) =>
            LET errs == IF req[r].resp.key = "errors" THEN req[r].resp.errors ELSE <<>>
            IN  /\ { errs[i].path : i \in DOMAIN errs } = BadFields(req[r].body)
                /\ (Len(errs) = 0) <=> (BadFields(req[r].body) = {})
                /\ (Done(r) /\ req[r].resp.status = 400) <=> (Len(errs) # 0)
                /\ errs = validationResult(postRules, req[r].body)
                /\ errs = validationResult(putRules, req[r].body)

\* C2, its case: a body with at least three bad fields has been refused, with more
\* violations than bad fields (a chain reported two).
C2_Witness ==
    \E r \in Reqs :
        /\ Done(r) /\ req[r].kind = "PUT" /\ req[r].resp.key = "errors"
        /\ Cardinality(BadFields(req[r].body)) >= 3
        /\ Len(req[r].resp.errors) > Cardinality(BadFields(req[r].body))

(***************************************************************************)
(* C3. Round trip. A POST with a valid body responds 201 with the document *)
(* under an identifier no other 201 response carries, and a GET of that    *)
(* identifier, while the creation is still the last write that hit the     *)
(* document, responds 200 with it.                                         *)
(***************************************************************************)
\* The first half of C3: a done POST answered 201 with the document of its
\* body iff the body is valid, and no identifier was created twice.
C3_PostCreates ==
    /\ \A r \in Reqs :
          (req[r].kind = "POST" /\ Done(r)) =>
              IF BodyValid(req[r].body)
              THEN /\ req[r].resp.status = 201 /\ req[r].resp.key = "doc"
                   /\ \A d \in req[r].resp.docs :
                          d.f = TextOfBody(req[r].body) /\ d.id \in Range(created)
                   /\ req[r].resp.docs # {}
              ELSE req[r].resp.status = 400
    /\ \A i, j \in DOMAIN created : i # j => created[i] # created[j]

C4_UpdateOverwrites ==
    \A r \in Reqs :
        (req[r].kind = "GET" /\ Done(r) /\ req[r].src.op = "update") =>
            /\ req[r].resp.status = 200
            /\ req[r].resp.docs = { DocOf(req[r].id, TextOfBody(req[r].src.body)) }

(***************************************************************************)
(* C5. Delete is permanent: an identifier a DELETE answered 200 for is in  *)
(* no later state of the collection, and a GET of it that arrives          *)
(* afterwards responds 404.                                                *)
(***************************************************************************)
\* C5: no deleted identifier is stored, and a GET that arrived after the
\* delete answered 404 "Employee not found".
C5_DeletePermanent ==
    /\ \A i \in deleted : i \notin DOMAIN store
    /\ \A r \in Reqs :
          (req[r].kind = "GET" /\ Done(r) /\ req[r].afterDel) =>
              req[r].resp = Resp(404, "message", "Employee not found", <<>>, {})

\* C5, its case: a PUT that had looked the document up before the delete has
\* run its
\* save after it, and a GET that arrived after the delete has answered.
C5_Witness ==
    /\ \E r \in Reqs :
          /\ req[r].kind = "PUT" /\ Done(r) /\ req[r].id \in deleted
          /\ req[r].src.op # "" /\ req[r].resp.msg = "DocumentNotFoundError"
    /\ \E r \in Reqs : req[r].kind = "GET" /\ Done(r) /\ req[r].afterDel

(***************************************************************************)
(* C6. The search responds with exactly the stored documents whose name    *)
(* contains the term literally, whatever its case: 200 and those, or 404   *)
(* "No employees found" when there is none.                                *)
(***************************************************************************)
\* C6: every step that answers a search answers with the literal matches of
\* the collection at that moment, or 404 when there is none.
C6_SearchLiteral ==
    [][\A r \in Reqs :
          (req[r].kind = "SEARCH" /\ req[r].pc = "find" /\ req'[r].pc = "done") =>
              LET hits == dbFindEscaped(store, req[r].term).docs
              IN  req'[r].resp =
                      IF hits = {}
                      THEN Resp(404, "message", "No employees found", <<>>, {})
                      ELSE Resp(200, "docs", "", <<>>, hits)]_vars

(***************************************************************************)
(* C7. A storage failure is answered { message: <text> }, with 400 by POST *)
(* and PUT and with 500 by the other routes, and a malformed identifier is *)
(* such a failure, never a 404.                                            *)
(***************************************************************************)
\* C7: a response to a storage failure has the key "message" and the status
\* of its route, and a request with a malformed identifier ends in one.
C7_StorageFailureShape ==
    \A r \in Reqs :
        /\ FailedInStorage(r) =>
              /\ req[r].resp.key = "message"
              /\ req[r].resp.status =
                     IF req[r].kind \in {"POST", "PUT"} THEN 400 ELSE 500
        /\ (Done(r) /\ req[r].id = BadId /\ req[r].resp.key # "errors") =>
              FailedInStorage(r)

(***************************************************************************)
(* C8. Validation comes first: a POST or PUT whose body has a violation    *)
(* responds 400 { errors } without any storage call, whatever the          *)
(* identifier; a PUT responds 404 only for a valid body and an identifier  *)
(* findById yielded no document for.                                       *)
(***************************************************************************)
\* C8: an invalid body ends in 400 { errors } with no storage call made; a
\* 404 of PUT comes with a valid body after one lookup that found nothing.
C8_ValidationFirst ==
    \A r \in Reqs :
        Validated(r) =>
            /\ ~BodyValid(req[r].body) =>
                  /\ Done(r)
                  /\ req[r].resp.status = 400 /\ req[r].resp.key = "errors"
                  /\ Len(req[r].resp.errors) > 0
                  /\ req[r].ops = 0 /\ ~req[r].wrote
            /\ req[r].resp.key = "errors" => ~BodyValid(req[r].body)
            /\ (req[r].kind = "PUT" /\ req[r].resp.status = 404) =>
                  /\ BodyValid(req[r].body)
                  /\ req[r].resp = Resp(404, "message", "Employee not found", <<>>, {})
                  /\ req[r].src = NoWrite /\ req[r].ops = 1

\* C8, its case: an invalid body has been refused with 400 on an identifier
\* that is not stored, while a valid body on such an identifier met a 404.
C8_Witness ==
    /\ \E r \in Reqs :
          /\ req[r].kind = "PUT" /\ Done(r) /\ req[r].resp.key = "errors"
          /\ isObjectId(req[r].id) /\ req[r].id \notin DOMAIN store
    /\ \E r \in Reqs :
          /\ req[r].kind = "PUT" /\ Done(r) /\ req[r].resp.status = 404

(***************************************************************************)
(* C9. Reads never change the collection, a request that answers 400, 404  *)
(* or 500 has not changed it, and GET /employees/:id answers 200 with the  *)
(* document as stored, so two such reads with no write between them agree. *)
(***************************************************************************)
ReadKinds == {"LIST", "GET", "SEARCH"}
\* C9: no read and no request that answered 400, 404 or 500 changed the
\* collection, in any state and at any step, and a 200 of GET by id carries
\* the document as stored at that step.
C9_ReadsAndFailuresKeepStore ==
    /\ [](\A r \in Reqs :
             /\ (Done(r) /\ req[r].resp.status \in {400, 404, 500}) => ~req[r].wrote
             /\ req[r].kind \in ReadKinds => ~req[r].wrote)
    /\ [][\A r \in Reqs :
             /\ (req'[r] # req[r] /\ req'[r].kind \in ReadKinds) => store' = store
             /\ (req'[r] # req[r] /\ Done(r)' /\ req'[r].resp.status \in {400, 404, 500})
                    => store' = store
             /\ (req[r].kind = "GET" /\ req[r].pc = "find" /\ req'[r].resp.status = 200)
                    => req'[r].resp.docs = { DocOf(req[r].id, store[req[r].id]) }]_vars

\* C9, its case: a GET has answered 200 while a PUT has answered 400 for a
\* storage error met at its save.
C9_Witness ==
    /\ \E r \in Reqs : req[r].kind = "GET" /\ Done(r) /\ req[r].resp.status = 200
    /\ \E r \in Reqs : req[r].kind = "PUT" /\ FailedInStorage(r) /\ req[r].ops = 2

(***************************************************************************)
(* C10. Two PUTs of one document that both answered 200 leave it equal to  *)
(* the body of one of them in all seven fields (as text).                  *)
(***************************************************************************)
\* C10: after two PUTs of one document both answered 200, one of them being
\* its last write, the document is the body of one of the two.
C10_UpdateAtomic ==
    \A r1, r2 \in Reqs :
        ( /\ r1 # r2
          /\ req[r1].kind = "PUT" /\ Done(r1) /\ req[r1].resp.status = 200
          /\ req[r2].kind = "PUT" /\ Done(r2) /\ req[r2].resp.status = 200
          /\ req[r1].id = req[r2].id
          /\ req[r1].id \in DOMAIN store
          /\ lastWrite[req[r1].id].op = "update"
          /\ lastWrite[req[r1].id].by \in {r1, r2} ) =>
            store[req[r1].id] \in
                { TextOfBody(req[r1].body), TextOfBody(req[r2].body) }

====
